---- MODULE Spec2Model ----
(***************************************************************************)
(* A model of src/server.js: the sanitizeOutput pipeline (lines 60-171)   *)
(* and the POST /api/solve handler (lines 173-225).                       *)
(*                                                                         *)
(* A string is a sequence of characters; a character is a one-character   *)
(* TLA+ string.  A character outside ASCII is written by name between     *)
(* angle brackets ("<sqrt>" for the square-root sign), which keeps it one *)
(* element of the sequence.                                               *)
(***************************************************************************)
EXTENDS Integers, Sequences, FiniteSets

VARIABLES raw, cleaned, filteredLines, sanitized, stage, pass, first,
          pc, req, reply, res, calls

vars == << raw, cleaned, filteredLines, sanitized, stage, pass, first,
           pc, req, reply, res, calls >>

(***************************************************************************)
(* Character classes of the regular expressions.                          *)
(***************************************************************************)
Digit == {"0", "1", "2", "3", "4", "5", "6", "7", "8", "9"}

LowerSeq == <<"a", "b", "c", "d", "e", "f", "g", "h", "i", "j", "k", "l", "m",
              "n", "o", "p", "q", "r", "s", "t", "u", "v", "w", "x", "y", "z">>

UpperSeq == <<"A", "B", "C", "D", "E", "F", "G", "H", "I", "J", "K", "L", "M",
              "N", "O", "P", "Q", "R", "S", "T", "U", "V", "W", "X", "Y", "Z">>

Lower == {LowerSeq[k] : k \in 1..26}

Upper == {UpperSeq[k] : k \in 1..26}

Letter == Lower \cup Upper

\* \w
WordChar == Letter \cup Digit \cup {"_"}

\* the line terminators of . ^ and $
LineTerminator == {"\n", "\r", "<LS>", "<PS>"}

\* \s
WhiteSpace == {" ", "\t", "\f", "<VT>", "<NBSP>"} \cup LineTerminator

\* [^\S\r\n]
HSpace == WhiteSpace \ {"\r", "\n"}

\* the flag i on an ASCII letter
ToLowerMap == [c \in Upper |-> LowerSeq[CHOOSE k \in 1..26 : UpperSeq[k] = c]]

ToLower(c) == IF c \in Upper THEN ToLowerMap[c]
              ELSE IF c = "<O-umlaut>" THEN "<o-umlaut>"
              ELSE IF c = "<O-circumflex>" THEN "<o-circumflex>"
              ELSE c

GreekClass == {"<alpha>", "<beta>", "<gamma>", "<delta>", "<epsilon>", "<theta>", "<lambda>", "<mu>", "<rho>", "<sigma>", "<phi>", "<chi>", "<psi>", "<omega>", "<Delta>", "<nabla>", "<partial>"}

\* what the flag i adds to the Greek letters of a class: their capitals
GreekCapitals == {"<Alpha>", "<Beta>", "<Gamma>", "<Epsilon>", "<Theta>", "<Lambda>",
                  "<Mu>", "<Rho>", "<Sigma>", "<Phi>", "<Chi>", "<Psi>", "<Omega>"}

CoreMathClass == Digit \cup {"+", "-", "*", "/", "=", "(", ")", "^", "<sqrt>", "<pi>", "<sum>", "<int>"} \cup GreekClass

CoreMathClassI == CoreMathClass \cup GreekCapitals \cup {"<Pi>"}

NotationClass == {"x", "y", "z", "a", "b", "c", "X", "Y", "Z", "A", "B", "C", "<le>", "<ge>", "<ne>", "<approx>", "<pm>", "<times>", "<div>", "<deg>"}

MathSymbolClass_wide == CoreMathClass \cup NotationClass \cup {"e", "E"}

MathSymbolClass == CoreMathClass \cup NotationClass

BulletClass == {"<bullet>", "*", "-"}

(***************************************************************************)
(* Positions are 1-based; a match is reported as the position after its   *)
(* last character, and 0 means no match.                                  *)
(***************************************************************************)
At(s, i) == IF i >= 1 /\ i <= Len(s) THEN s[i] ELSE "<none>"

\* F of the value of x, with x evaluated once
With(x, F(_)) == CHOOSE r \in {F(v) : v \in {x}} : TRUE

\* the least and the greatest element of a non-empty set of positions
Least(P) == CHOOSE k \in P : \A m \in P : k <= m

Greatest(P) == CHOOSE k \in P : \A m \in P : m <= k

\* the position after the longest run of characters of C that starts at i
RunEnd(s, i, C) ==
  LET f[j \in 1..(Len(s) + 1)] == IF j <= Len(s) /\ s[j] \in C THEN f[j + 1] ELSE j
  IN IF i > Len(s) THEN i ELSE f[i]

\* the position after the longest run of characters outside C that starts at i
RunEndNot(s, i, C) ==
  LET stops == {j \in i..Len(s) : s[j] \in C}
  IN IF i > Len(s) THEN i ELSE IF stops = {} THEN Len(s) + 1 ELSE Least(stops)

\* \b at the position before s[k]
WordB(s, k) == (At(s, k - 1) \in WordChar) # (At(s, k) \in WordChar)

\* ^ and $ under the flag m
LineStart(s, i) == i = 1 \/ At(s, i - 1) \in LineTerminator

LineEnd(s, k) == k = Len(s) + 1 \/ At(s, k) \in LineTerminator

\* the literal w at position i
Lit(s, i, w) == /\ i + Len(w) - 1 <= Len(s)
                /\ \A k \in 1..Len(w) : s[i + k - 1] = w[k]

\* the literal w (given in lower case) at position i under the flag i
LitI(s, i, w) == /\ i + Len(w) - 1 <= Len(s)
                 /\ \A k \in 1..Len(w) : ToLower(s[i + k - 1]) = w[k]

\* (w1|w2|...)\b under the flag i: the first alternative, in order, that matches
AltI(s, i, alts) ==
  LET ok == {k \in 1..Len(alts) : LitI(s, i, alts[k]) /\ WordB(s, i + Len(alts[k]))}
  IN IF ok = {} THEN 0 ELSE i + Len(alts[Least(ok)])

\* the first position from i on where the literal w starts, 0 when there is none
FindLit(s, i, w) ==
  LET found == {j \in i..Len(s) : Lit(s, j, w)}
  IN IF found = {} THEN 0 ELSE Least(found)

\* String.prototype.replace with a global regular expression: M(s, i) is the
\* match at position i and R(s, i, e) what replaces s[i..e-1]
\* The scan goes left to right: a match at i is replaced and the scan goes on
\* after it, a position without a match keeps its character.  scan(lo, hi, st)
\* is the scan of positions lo..hi entered at st: what it writes and where it
\* leaves the range (the range is halved to keep the evaluation shallow).
ReplaceAll(M(_, _), R(_, _, _), s) ==
  LET RECURSIVE scan(_, _, _)
      scan(lo, hi, st) ==
        IF lo = hi
        THEN With(M(s, st), LAMBDA e :
               IF e > st THEN [out |-> R(s, st, e), next |-> e]
               ELSE [out |-> <<s[st]>>, next |-> st + 1])
        ELSE With(IF st <= (lo + hi) \div 2 THEN scan(lo, (lo + hi) \div 2, st)
                  ELSE [out |-> <<>>, next |-> st], LAMBDA a :
             With(IF a.next <= hi THEN scan((lo + hi) \div 2 + 1, hi, a.next)
                  ELSE [out |-> <<>>, next |-> a.next], LAMBDA b :
               [out |-> a.out \o b.out, next |-> b.next]))
  IN IF s = <<>> THEN <<>> ELSE scan(1, Len(s), 1).out

Remove(s, i, e) == <<>>

OneSpace(s, i, e) == <<" ">>

\* $1$2 of /(.)\s+(...)/: the first character and what follows the white space
JoinGroups(s, i, e) == <<s[i]>> \o SubSeq(s, RunEnd(s, i + 1, WhiteSpace), e - 1)

\* String.prototype.trim
Trim(s) ==
  LET a == RunEnd(s, 1, WhiteSpace)
      g[j \in 0..Len(s)] == IF j >= 1 /\ s[j] \in WhiteSpace THEN g[j - 1] ELSE j
  IN IF a > Len(s) THEN <<>> ELSE SubSeq(s, a, g[Len(s)])

(***************************************************************************)
(* Stage A: the whole-text replacements of lines 64-91.                   *)
(***************************************************************************)
\* line 66: /\\?\[\\?\]/g
mLatexBrackets(s, i) ==
  LET p == IF At(s, i) = "\\" THEN i + 1 ELSE i
      q == IF At(s, p + 1) = "\\" THEN p + 2 ELSE p + 1
  IN IF At(s, p) = "[" /\ At(s, q) = "]" THEN q + 1 ELSE 0

\* line 67: /\$\$?/g
mDollar(s, i) ==
  IF At(s, i) = "$" THEN (IF At(s, i + 1) = "$" THEN i + 2 ELSE i + 1) ELSE 0

\* line 68: /\\text\{[^}]*\}/g
mLatexText(s, i) ==
  IF Lit(s, i, <<"\\", "t", "e", "x", "t", "{">>)
  THEN LET j == RunEndNot(s, i + 6, {"}"}) IN IF At(s, j) = "}" THEN j + 1 ELSE 0
  ELSE 0

\* line 69: /\\frac\{[^}]*\}\{[^}]*\}/g
mLatexFrac(s, i) ==
  IF Lit(s, i, <<"\\", "f", "r", "a", "c", "{">>)
  THEN LET j == RunEndNot(s, i + 6, {"}"})
           k == RunEndNot(s, j + 2, {"}"})
       IN IF At(s, j) = "}" /\ At(s, j + 1) = "{" /\ At(s, k) = "}" THEN k + 1 ELSE 0
  ELSE 0

\* line 71: /\/\/.*$/gm
mLineComment(s, i) ==
  IF Lit(s, i, <<"/", "/">>) THEN RunEndNot(s, i + 2, LineTerminator) ELSE 0

\* line 72: /\/\*[\s\S]*?\*\//g
mBlockComment(s, i) ==
  IF Lit(s, i, <<"/", "*">>)
  THEN LET j == FindLit(s, i + 2, <<"*", "/">>) IN IF j > 0 THEN j + 2 ELSE 0
  ELSE 0

\* line 73: /#.*$/gm
mHashComment(s, i) ==
  IF At(s, i) = "#" THEN RunEndNot(s, i + 1, LineTerminator) ELSE 0

\* line 75: /^\s*\d+\.\s*/gm
mStepNumber(s, i) ==
  LET p == RunEnd(s, i, WhiteSpace)
      q == RunEnd(s, p, Digit)
  IN IF LineStart(s, i) /\ q > p /\ At(s, q) = "." THEN RunEnd(s, q + 1, WhiteSpace) ELSE 0

\* line 76: /\b(Step\s+\d+:|Step\s+\d+)\b/gi
mStepLabel(s, i) ==
  LET p == i + 4
      q == RunEnd(s, p, WhiteSpace)
      r == RunEnd(s, q, Digit)
  IN IF WordB(s, i) /\ LitI(s, i, <<"s", "t", "e", "p">>) /\ q > p /\ r > q
     THEN IF At(s, r) = ":" /\ WordB(s, r + 1) THEN r + 1
          ELSE IF WordB(s, r) THEN r ELSE 0
     ELSE 0

\* the alternatives of line 78, in lower case
explanatoryWords == <<
    <<"t", "h", "e", "r", "e", "f", "o", "r", "e">>,
    <<"t", "h", "u", "s">>,
    <<"h", "e", "n", "c", "e">>,
    <<"s", "o">>,
    <<"a", "n", "s", "w", "e", "r", ":">>,
    <<"s", "o", "l", "u", "t", "i", "o", "n", ":">>,
    <<"r", "e", "s", "u", "l", "t", ":">>,
    <<"c", "a", "l", "c", "u", "l", "a", "t", "e">>,
    <<"a", "p", "p", "l", "y">>,
    <<"t", "o", "t", "a", "l">>,
    <<"e", "a", "c", "h">>,
    <<"t", "h", "e">>,
    <<"t", "h", "i", "s">>,
    <<"t", "h", "a", "t">>,
    <<"w", "e">>,
    <<"y", "o", "u">>,
    <<"i">> >>

\* line 78: /\b(Therefore|...|I)\b/gi
mExplanatoryWord(s, i) == IF WordB(s, i) THEN AltI(s, i, explanatoryWords) ELSE 0

\* the alternatives of line 79, in lower case
explanatoryPhrases == <<
    <<"t", "h", "e", " ", "a", "n", "s", "w", "e", "r", " ", "i", "s">>,
    <<"t", "h", "e", " ", "r", "e", "s", "u", "l", "t", " ", "i", "s">>,
    <<"t", "h", "e", " ", "s", "o", "l", "u", "t", "i", "o", "n", " ", "i", "s">>,
    <<"w", "e", " ", "h", "a", "v", "e">>,
    <<"w", "e", " ", "g", "e", "t">>,
    <<"w", "e", " ", "f", "i", "n", "d">>,
    <<"n", "o", "t", "e", ":">>,
    <<"n", "o", "t", "e", " ", "t", "h", "a", "t">>,
    <<"a", "p", "p", "l", "y", " ", "t", "h", "e", " ", "f", "o", "r", "m", "u", "l", "a">>,
    <<"c", "a", "l", "c", "u", "l", "a", "t", "e", " ", "t", "h", "e">>,
    <<"t", "o", "t", "a", "l", " ", "a", "p", "p", "l", "e", "s">>,
    <<"t", "o", "t", "a", "l", " ", "p", "e", "o", "p", "l", "e">>,
    <<"e", "a", "c", "h", " ", "p", "e", "r", "s", "o", "n">>,
    <<"e", "a", "c", "h", " ", "p", "e", "r", "s", "o", "n", " ", "c", "a", "n">>,
    <<"c", "a", "n", " ", "h", "a", "v", "e">> >>

\* line 79: /\b(The answer is|...|can have)\b/gi
mExplanatoryPhrase(s, i) == IF WordB(s, i) THEN AltI(s, i, explanatoryPhrases) ELSE 0

\* line 81: /^[^0-9+\-*/=()^...xyzabcXYZABC...]*$/gm
mProseLines(s, i) ==
  LET j == RunEndNot(s, i, MathSymbolClass)
      ends == {k \in i..j : LineEnd(s, k)}
  IN IF LineStart(s, i) /\ ends # {}
     THEN Greatest(ends)
     ELSE 0

\* the words of line 83, in lower case
asideWords == <<
    <<"c", "o", "m", "m", "e", "n", "t">>,
    <<"d", "e", "s", "c", "r", "i", "p", "t", "i", "o", "n">>,
    <<"e", "x", "p", "l", "a", "n", "a", "t", "i", "o", "n">>,
    <<"n", "o", "t", "e">> >>

\* line 83: /\([^)]*(?:note|...|Description)[^)]*\)/gi
mParenAside(s, i) ==
  LET j == RunEndNot(s, i + 1, {")"})
  IN IF /\ At(s, i) = "("
        /\ At(s, j) = ")"
        /\ \E p \in (i + 1)..(j - 1) : \E w \in 1..Len(asideWords) :
              LitI(s, p, asideWords[w]) /\ p + Len(asideWords[w]) <= j
     THEN j + 1
     ELSE 0

\* the qualifiers of lines 85 and 138, in lower case
qualifierWords == <<
    <<"t", "o", "t", "a", "l">>,
    <<"p", "e", "r">>,
    <<"e", "a", "c", "h">>,
    <<"i", "n", "i", "t", "i", "a", "l">>,
    <<"f", "i", "n", "a", "l">>,
    <<"n", "e", "t">>,
    <<"a", "v", "e", "r", "a", "g", "e">>,
    <<"s", "u", "m">>,
    <<"d", "i", "f", "f", "e", "r", "e", "n", "c", "e">> >>

\* lines 85 and 138: /\b(Total|...|Difference)\s+[a-zA-Z]+\b/gi
mQualifierNoun(s, i) ==
  LET ends == {k \in 1..Len(qualifierWords) :
                 LET p == i + Len(qualifierWords[k])
                     q == RunEnd(s, p, WhiteSpace)
                     r == RunEnd(s, q, Letter)
                 IN LitI(s, i, qualifierWords[k]) /\ q > p /\ r > q /\ WordB(s, r)}
  IN IF WordB(s, i) /\ ends # {}
     THEN LET k == Least(ends)
          IN RunEnd(s, RunEnd(s, i + Len(qualifierWords[k]), WhiteSpace), Letter)
     ELSE 0

\* line 87: /[;:](?=\s*$)/gm
mTrailingPunct(s, i) ==
  IF /\ At(s, i) \in {";", ":"}
     /\ \E k \in (i + 1)..RunEnd(s, i + 1, WhiteSpace) : LineEnd(s, k)
  THEN i + 1
  ELSE 0

\* line 89: /^\s*[bullet*\-]\s+/gm
mLeadingBullet(s, i) ==
  LET p == RunEnd(s, i, WhiteSpace)
      q == RunEnd(s, p + 1, WhiteSpace)
  IN IF LineStart(s, i) /\ At(s, p) \in BulletClass /\ q > p + 1 THEN q ELSE 0

\* line 90: /\s*[bullet*\-]\s*$/gm
mTrailingBullet(s, i) ==
  LET p == RunEnd(s, i, WhiteSpace)
      q == RunEnd(s, p + 1, WhiteSpace)
      ends == {k \in (p + 1)..q : LineEnd(s, k)}
  IN IF At(s, p) \in BulletClass /\ ends # {}
     THEN Greatest(ends)
     ELSE 0

\* line 91: /[^\S\r\n]+/g
mHSpaceRun(s, i) == IF At(s, i) \in HSpace THEN RunEnd(s, i, HSpace) ELSE 0

\* lines 64-91: the chain of replacements, in the order of the source
stageA(text) ==
  With(ReplaceAll(mLatexBrackets, Remove, text), LAMBDA t1 :
  With(ReplaceAll(mDollar, Remove, t1), LAMBDA t2 :
  With(ReplaceAll(mLatexText, Remove, t2), LAMBDA t3 :
  With(ReplaceAll(mLatexFrac, Remove, t3), LAMBDA t4 :
  With(ReplaceAll(mLineComment, Remove, t4), LAMBDA t5 :
  With(ReplaceAll(mBlockComment, Remove, t5), LAMBDA t6 :
  With(ReplaceAll(mHashComment, Remove, t6), LAMBDA t7 :
  With(ReplaceAll(mStepNumber, Remove, t7), LAMBDA t8 :
  With(ReplaceAll(mStepLabel, Remove, t8), LAMBDA t9 :
  With(ReplaceAll(mExplanatoryWord, Remove, t9), LAMBDA t10 :
  With(ReplaceAll(mExplanatoryPhrase, Remove, t10), LAMBDA t11 :
  With(ReplaceAll(mProseLines, Remove, t11), LAMBDA t12 :
  With(ReplaceAll(mParenAside, Remove, t12), LAMBDA t13 :
  With(ReplaceAll(mQualifierNoun, Remove, t13), LAMBDA t14 :
  With(ReplaceAll(mTrailingPunct, Remove, t14), LAMBDA t15 :
  With(ReplaceAll(mLeadingBullet, Remove, t15), LAMBDA t16 :
  With(ReplaceAll(mTrailingBullet, Remove, t16), LAMBDA t17 :
  ReplaceAll(mHSpaceRun, OneSpace, t17))))))))))))))))))

(***************************************************************************)
(* Stage B: lines 94-132, the split into lines and the filter.            *)
(***************************************************************************)
\* line 94: the alternatives of equipmentPattern, in lower case
equipmentPattern == <<
    <<"s", "p", "e", "c", "t", "r", "o", "p", "h", "o", "t", "o", "m", "e", "t", "e", "r">>,
    <<"c", "a", "l", "o", "r", "i", "m", "e", "t", "e", "r">>,
    <<"o", "s", "c", "i", "l", "l", "o", "s", "c", "o", "p", "e">>,
    <<"v", "o", "l", "t", "m", "e", "t", "e", "r">>,
    <<"a", "m", "m", "e", "t", "e", "r">>,
    <<"m", "u", "l", "t", "i", "m", "e", "t", "e", "r">>,
    <<"t", "h", "e", "r", "m", "o", "m", "e", "t", "e", "r">>,
    <<"b", "a", "r", "o", "m", "e", "t", "e", "r">>,
    <<"m", "a", "n", "o", "m", "e", "t", "e", "r">>,
    <<"b", "u", "r", "e", "t", "t", "e">>,
    <<"p", "i", "p", "e", "t", "t", "e">>,
    <<"b", "e", "a", "k", "e", "r">>,
    <<"f", "l", "a", "s", "k">>,
    <<"t", "e", "s", "t", " ", "t", "u", "b", "e">>,
    <<"m", "i", "c", "r", "o", "s", "c", "o", "p", "e">>,
    <<"t", "e", "l", "e", "s", "c", "o", "p", "e">>,
    <<"l", "a", "s", "e", "r">>,
    <<"p", "r", "i", "s", "m">>,
    <<"l", "e", "n", "s">>,
    <<"m", "i", "r", "r", "o", "r">>,
    <<"r", "e", "s", "i", "s", "t", "o", "r">>,
    <<"c", "a", "p", "a", "c", "i", "t", "o", "r">>,
    <<"i", "n", "d", "u", "c", "t", "o", "r">>,
    <<"t", "r", "a", "n", "s", "f", "o", "r", "m", "e", "r">>,
    <<"g", "e", "n", "e", "r", "a", "t", "o", "r">>,
    <<"m", "o", "t", "o", "r">>,
    <<"s", "e", "n", "s", "o", "r">>,
    <<"d", "e", "t", "e", "c", "t", "o", "r">>,
    <<"a", "n", "a", "l", "y", "z", "e", "r">>,
    <<"c", "h", "r", "o", "m", "a", "t", "o", "g", "r", "a", "p", "h">>,
    <<"m", "a", "s", "s", " ", "s", "p", "e", "c", "t", "r", "o", "m", "e", "t", "e", "r">>,
    <<"n", "m", "r">>,
    <<"i", "r">>,
    <<"u", "v">>,
    <<"x", "-", "r", "a", "y">>,
    <<"e", "l", "e", "c", "t", "r", "o", "n", " ", "m", "i", "c", "r", "o", "s", "c", "o", "p", "e">> >>

\* line 97: the alternatives of methodPattern, in lower case
methodPattern == <<
    <<"i", "n", "t", "e", "g", "r", "a", "t", "i", "o", "n">>,
    <<"d", "i", "f", "f", "e", "r", "e", "n", "t", "i", "a", "t", "i", "o", "n">>,
    <<"d", "e", "r", "i", "v", "a", "t", "i", "v", "e">>,
    <<"i", "n", "t", "e", "g", "r", "a", "l">>,
    <<"s", "u", "b", "s", "t", "i", "t", "u", "t", "i", "o", "n">>,
    <<"q", "u", "a", "d", "r", "a", "t", "i", "c", " ", "f", "o", "r", "m", "u", "l", "a">>,
    <<"p", "y", "t", "h", "a", "g", "o", "r", "e", "a", "n", " ", "t", "h", "e", "o", "r", "e", "m">>,
    <<"n", "e", "w", "t", "o", "n">>,
    <<"c", "o", "n", "s", "e", "r", "v", "a", "t", "i", "o", "n">>,
    <<"m", "o", "m", "e", "n", "t", "u", "m">>,
    <<"e", "n", "e", "r", "g", "y">>,
    <<"f", "o", "r", "c", "e">>,
    <<"a", "c", "c", "e", "l", "e", "r", "a", "t", "i", "o", "n">>,
    <<"v", "e", "l", "o", "c", "i", "t", "y">>,
    <<"d", "i", "s", "p", "l", "a", "c", "e", "m", "e", "n", "t">>,
    <<"k", "i", "n", "e", "m", "a", "t", "i", "c", "s">>,
    <<"d", "y", "n", "a", "m", "i", "c", "s">>,
    <<"t", "h", "e", "r", "m", "o", "d", "y", "n", "a", "m", "i", "c", "s">>,
    <<"e", "l", "e", "c", "t", "r", "o", "s", "t", "a", "t", "i", "c", "s">>,
    <<"m", "a", "g", "n", "e", "t", "i", "s", "m">>,
    <<"o", "p", "t", "i", "c", "s">>,
    <<"q", "u", "a", "n", "t", "u", "m">>,
    <<"r", "e", "l", "a", "t", "i", "v", "i", "t", "y">>,
    <<"s", "t", "o", "i", "c", "h", "i", "o", "m", "e", "t", "r", "y">>,
    <<"e", "q", "u", "i", "l", "i", "b", "r", "i", "u", "m">>,
    <<"r", "e", "a", "c", "t", "i", "o", "n">>,
    <<"o", "x", "i", "d", "a", "t", "i", "o", "n">>,
    <<"r", "e", "d", "u", "c", "t", "i", "o", "n">>,
    <<"a", "c", "i", "d">>,
    <<"b", "a", "s", "e">>,
    <<"p", "h">>,
    <<"m", "o", "l", "a", "r", "i", "t", "y">>,
    <<"m", "o", "l", "a", "r", " ", "m", "a", "s", "s">>,
    <<"a", "v", "o", "g", "a", "d", "r", "o">>,
    <<"i", "d", "e", "a", "l", " ", "g", "a", "s">>,
    <<"b", "o", "y", "l", "e">>,
    <<"c", "h", "a", "r", "l", "e", "s">>,
    <<"g", "a", "y", "-", "l", "u", "s", "s", "a", "c">>,
    <<"o", "h", "m">>,
    <<"k", "i", "r", "c", "h", "h", "o", "f", "f">>,
    <<"f", "a", "r", "a", "d", "a", "y">>,
    <<"m", "a", "x", "w", "e", "l", "l">>,
    <<"e", "i", "n", "s", "t", "e", "i", "n">>,
    <<"s", "c", "h", "r", "<o-umlaut>", "d", "i", "n", "g", "e", "r">>,
    <<"h", "e", "i", "s", "e", "n", "b", "e", "r", "g">>,
    <<"b", "o", "h", "r">>,
    <<"p", "l", "a", "n", "c", "k">>,
    <<"d", "e", " ", "b", "r", "o", "g", "l", "i", "e">>,
    <<"f", "o", "u", "r", "i", "e", "r">>,
    <<"l", "a", "p", "l", "a", "c", "e">>,
    <<"t", "a", "y", "l", "o", "r">>,
    <<"m", "a", "c", "l", "a", "u", "r", "i", "n">>,
    <<"l", "'", "h", "<o-circumflex>", "p", "i", "t", "a", "l">>,
    <<"c", "h", "a", "i", "n", " ", "r", "u", "l", "e">>,
    <<"p", "r", "o", "d", "u", "c", "t", " ", "r", "u", "l", "e">>,
    <<"q", "u", "o", "t", "i", "e", "n", "t", " ", "r", "u", "l", "e">>,
    <<"i", "n", "t", "e", "g", "r", "a", "t", "i", "o", "n", " ", "b", "y", " ", "p", "a", "r", "t", "s">>,
    <<"p", "a", "r", "t", "i", "a", "l", " ", "f", "r", "a", "c", "t", "i", "o", "n", "s">>,
    <<"t", "r", "i", "g", "o", "n", "o", "m", "e", "t", "r", "i", "c", " ", "s", "u", "b", "s", "t", "i", "t", "u", "t", "i", "o", "n">>,
    <<"u", "-", "s", "u", "b", "s", "t", "i", "t", "u", "t", "i", "o", "n">> >>

\* line 100: String.prototype.split(/\r?\n/)
splitLines(s) ==
  LET f[i \in 1..(Len(s) + 1)] ==
        LET b == FindLit(s, i, <<"\n">>)
        IN IF b = 0 THEN <<SubSeq(s, i, Len(s))>>
           ELSE <<SubSeq(s, i, IF b - 1 >= i /\ s[b - 1] = "\r" THEN b - 2 ELSE b - 1)>>
                \o f[b + 1]
  IN f[1]

\* lines 100 and 102: the trimmed lines of the cleaned text
lines(text) == With(splitLines(text), LAMBDA parts : [k \in 1..Len(parts) |-> Trim(parts[k])])

\* line 107: the number of characters of the line that are math symbols
mathSymbols(line) == Cardinality({k \in 1..Len(line) : line[k] \in MathSymbolClass})

\* line 108: line.split(/\s+/).length, one more than the runs of white space
textWords(line) ==
  1 + Cardinality({k \in 1..Len(line) :
                     line[k] \in WhiteSpace /\ At(line, k - 1) \notin WhiteSpace})

\* the alternatives of line 113, in lower case
descriptiveWords == <<
    <<"t", "o", "t", "a", "l">>,
    <<"e", "a", "c", "h">>,
    <<"p", "e", "r">>,
    <<"a", "p", "p", "l", "y">>,
    <<"c", "a", "l", "c", "u", "l", "a", "t", "e">>,
    <<"s", "t", "e", "p">>,
    <<"t", "h", "e">>,
    <<"t", "h", "i", "s">>,
    <<"t", "h", "a", "t">>,
    <<"w", "e">>,
    <<"y", "o", "u">>,
    <<"i">>,
    <<"c", "a", "n">>,
    <<"h", "a", "v", "e">>,
    <<"i", "s">>,
    <<"a", "r", "e">>,
    <<"w", "a", "s">>,
    <<"w", "e", "r", "e">> >>

\* line 113: /\b(Total|...|were)\b/gi.test(line)
hasDescriptiveWord(line) ==
  \E i \in 1..Len(line) : WordB(line, i) /\ AltI(line, i, descriptiveWords) > 0

\* lines 114 and 121: /[0-9+\-*/=()^...]/i.test(line)
hasCoreMath(line) == \E k \in 1..Len(line) : line[k] \in CoreMathClassI

\* line 117: /^(True|False)$/i
isTrueFalse(line) ==
  \/ Len(line) = 4 /\ LitI(line, 1, <<"t", "r", "u", "e">>)
  \/ Len(line) = 5 /\ LitI(line, 1, <<"f", "a", "l", "s", "e">>)

\* line 119: /^[A-E]$/i
isChoice(line) == Len(line) = 1 /\ ToLower(line[1]) \in {"a", "b", "c", "d", "e"}

\* line 123: /[xyzabcXYZABC...]/i.test(line)
hasNotation(line) == \E k \in 1..Len(line) : line[k] \in NotationClass

\* lines 125 and 127: /[0-9+\-*/=()]/i.test(line)
hasArithmetic(line) ==
  \E k \in 1..Len(line) : line[k] \in Digit \cup {"+", "-", "*", "/", "=", "(", ")"}

\* lines 125 and 127: RegExp.prototype.test of a pattern with the flag g, which
\* searches from lastIndex on; the result is the new lastIndex, 0 when the search fails
testGlobal(alts, line, lastIndex) ==
  LET found == {i \in (lastIndex + 1)..Len(line) :
                  WordB(line, i) /\ AltI(line, i, alts) > 0}
  IN IF found = {} THEN 0 ELSE AltI(line, Least(found), alts) - 1

\* line 129: /[a-zA-Z...]\s*[=<>...]\s*[a-zA-Z0-9...]/i.test(line)
isFormula(line) ==
  \E i \in 1..Len(line) :
    LET p == RunEnd(line, i + 1, WhiteSpace)
        q == RunEnd(line, p + 1, WhiteSpace)
    IN /\ line[i] \in Letter \cup GreekClass \cup GreekCapitals
       /\ At(line, p) \in {"=", "<", ">", "<le>", "<ge>", "<ne>", "<approx>"}
       /\ At(line, q) \in Letter \cup (CoreMathClassI \ {"="}) \cup {"<sup2>", "<sup3>"}

keepLine_noRatio(line, st) ==
  LET no == [keep |-> FALSE, eq |-> st.eq, meth |-> st.meth]
      yes == [keep |-> TRUE, eq |-> st.eq, meth |-> st.meth]
  IN IF line = <<>> THEN no
     ELSE IF hasDescriptiveWord(line) /\ ~hasCoreMath(line) THEN no
     ELSE IF isTrueFalse(line) \/ isChoice(line) \/ hasCoreMath(line) \/ hasNotation(line)
     THEN yes
     ELSE no

\* lines 103-132: the callback of filter on one line, with the lastIndex of
\* equipmentPattern (eq) and of methodPattern (meth) that it reads and leaves
keepLine(line, st) ==
  LET no == [keep |-> FALSE, eq |-> st.eq, meth |-> st.meth]
      yes == [keep |-> TRUE, eq |-> st.eq, meth |-> st.meth]
  IN IF line = <<>> THEN no
     ELSE IF textWords(line) > mathSymbols(line) * 2 /\ mathSymbols(line) < 3 THEN no
     ELSE IF hasDescriptiveWord(line) /\ ~hasCoreMath(line) THEN no
     ELSE IF isTrueFalse(line) THEN yes
     ELSE IF isChoice(line) THEN yes
     ELSE IF hasCoreMath(line) THEN yes
     ELSE IF hasNotation(line) THEN yes
     ELSE With(testGlobal(equipmentPattern, line, st.eq), LAMBDA eq2 :
            IF eq2 > 0 /\ hasArithmetic(line)
            THEN [keep |-> TRUE, eq |-> eq2, meth |-> st.meth]
            ELSE With(testGlobal(methodPattern, line, st.meth), LAMBDA meth2 :
                   IF meth2 > 0 /\ hasArithmetic(line)
                   THEN [keep |-> TRUE, eq |-> eq2, meth |-> meth2]
                   ELSE [keep |-> isFormula(line), eq |-> eq2, meth |-> meth2]))

\* lines 101-132: the lines the filter keeps, in order
filterLines(ls) ==
  LET f[k \in 0..Len(ls)] ==
        IF k = 0 THEN [kept |-> <<>>, eq |-> 0, meth |-> 0]
        ELSE With(f[k - 1], LAMBDA prev :
             With(keepLine(ls[k], prev), LAMBDA r :
               [kept |-> IF r.keep THEN Append(prev.kept, ls[k]) ELSE prev.kept,
                eq |-> r.eq, meth |-> r.meth]))
  IN f[Len(ls)].kept

(***************************************************************************)
(* Stage C: normalizeVariables, lines 135-164, and the assembly.          *)
(***************************************************************************)
\* line 141: /\b([a-zA-Z])\s+(\d+)\b/g
mLetterDigits(s, i) ==
  LET p == RunEnd(s, i + 1, WhiteSpace)
      q == RunEnd(s, p, Digit)
  IN IF WordB(s, i) /\ At(s, i) \in Letter /\ p > i + 1 /\ q > p /\ WordB(s, q)
     THEN q ELSE 0

\* the alternatives of line 144
subscriptWords == <<
    <<"i", "n", "i", "t", "i", "a", "l">>,
    <<"f", "i", "n", "a", "l">>,
    <<"t", "o", "t", "a", "l">>,
    <<"n", "e", "t">>,
    <<"m", "a", "x">>,
    <<"m", "i", "n">>,
    <<"a", "v", "g">>,
    <<"a", "v", "e", "r", "a", "g", "e">>,
    <<"s", "u", "m">>,
    <<"d", "i", "f", "f">>,
    <<"d", "e", "l", "t", "a">>,
    <<"c", "h", "a", "n", "g", "e">>,
    <<"i">>,
    <<"f">> >>

\* line 144: /\b([a-zA-Z])\s+(initial|...|i|f)\b/gi
mLetterSubscript(s, i) ==
  LET p == RunEnd(s, i + 1, WhiteSpace)
  IN IF WordB(s, i) /\ At(s, i) \in Letter /\ p > i + 1
     THEN AltI(s, p, subscriptWords) ELSE 0

\* line 147: /([greek])\s+(\d+)/g
mGreekDigits(s, i) ==
  LET p == RunEnd(s, i + 1, WhiteSpace)
      q == RunEnd(s, p, Digit)
  IN IF At(s, i) \in GreekClass /\ p > i + 1 /\ q > p THEN q ELSE 0

\* the alternatives of line 150
greekSubscriptWords == <<
    <<"i", "n", "i", "t", "i", "a", "l">>,
    <<"f", "i", "n", "a", "l">>,
    <<"t", "o", "t", "a", "l">>,
    <<"n", "e", "t">>,
    <<"m", "a", "x">>,
    <<"m", "i", "n">>,
    <<"a", "v", "g">>,
    <<"i">>,
    <<"f">> >>

\* line 150: /([greek])\s+(initial|...|i|f)\b/gi
mGreekSubscript(s, i) ==
  LET p == RunEnd(s, i + 1, WhiteSpace)
  IN IF At(s, i) \in GreekClass \cup GreekCapitals /\ p > i + 1
     THEN AltI(s, p, greekSubscriptWords) ELSE 0

\* line 153: /\b([A-Za-z])\s+([a-z]+)\b(?=\s*[=+\-*/()]|$)/g
mLetterWord(s, i) ==
  LET p == RunEnd(s, i + 1, WhiteSpace)
      q == RunEnd(s, p, Lower)
  IN IF /\ WordB(s, i) /\ At(s, i) \in Letter /\ p > i + 1 /\ q > p /\ WordB(s, q)
        /\ \/ At(s, RunEnd(s, q, WhiteSpace)) \in {"=", "+", "-", "*", "/", "(", ")"}
           \/ q = Len(s) + 1
     THEN q ELSE 0

\* line 156: /\s*[;,]\s*$/g
mTrailingComma(s, i) ==
  LET p == RunEnd(s, i, WhiteSpace)
  IN IF At(s, p) \in {";", ","} /\ RunEnd(s, p + 1, WhiteSpace) = Len(s) + 1
     THEN Len(s) + 1 ELSE 0

\* line 157: /^['"]+|['"]+$/g
mEdgeQuotes(s, i) ==
  IF At(s, i) \notin {"'", "\""} THEN 0
  ELSE IF i = 1 THEN RunEnd(s, 1, {"'", "\""})
  ELSE IF RunEnd(s, i, {"'", "\""}) = Len(s) + 1 THEN Len(s) + 1 ELSE 0

\* line 158: the class of the backtick and the tilde, under the flag g
mTick(s, i) == IF At(s, i) \in {"<backtick>", "~"} THEN i + 1 ELSE 0

\* line 161: /[ \t]+/g
mBlankRun(s, i) == IF At(s, i) \in {" ", "\t"} THEN RunEnd(s, i, {" ", "\t"}) ELSE 0

\* lines 135-164
normalizeVariables(line) ==
  With(ReplaceAll(mQualifierNoun, Remove, line), LAMBDA l1 :
  With(ReplaceAll(mLetterDigits, JoinGroups, l1), LAMBDA l2 :
  With(ReplaceAll(mLetterSubscript, JoinGroups, l2), LAMBDA l3 :
  With(ReplaceAll(mGreekDigits, JoinGroups, l3), LAMBDA l4 :
  With(ReplaceAll(mGreekSubscript, JoinGroups, l4), LAMBDA l5 :
  With(ReplaceAll(mLetterWord, JoinGroups, l5), LAMBDA l6 :
  With(ReplaceAll(mTrailingComma, Remove, l6), LAMBDA l7 :
  With(ReplaceAll(mEdgeQuotes, Remove, l7), LAMBDA l8 :
  With(ReplaceAll(mTick, Remove, l8), LAMBDA l9 :
  With(ReplaceAll(mBlankRun, OneSpace, l9), LAMBDA l10 : Trim(l10)))))))))))

\* Array.prototype.join("\n")
joinLines(ls) ==
  LET f[k \in 0..Len(ls)] ==
        IF k = 0 THEN <<>>
        ELSE IF k = 1 THEN ls[1]
        ELSE f[k - 1] \o <<"\n">> \o ls[k]
  IN f[Len(ls)]

\* lines 167-170: map, join and trim
assemble(kept) ==
  With([k \in 1..Len(kept) |-> normalizeVariables(kept[k])], LAMBDA normalized :
  With(joinLines(normalized), LAMBDA joined : Trim(joined)))

\* null and undefined, which are no strings: a sequence that holds no character
Null == <<"<null>">>

\* lines 60-171
sanitizeOutput(text) ==
  IF text = Null \/ text = <<>> THEN <<>>
  ELSE With(stageA(text), LAMBDA cleanedText :
       With(lines(cleanedText), LAMBDA trimmed :
       With(filterLines(trimmed), LAMBDA kept : assemble(kept))))

(***************************************************************************)
(* The inputs the sanitizer is run on: every string over a small alphabet *)
(* up to MaxLen characters, the examples of the specification and one     *)
(* line per equipment name.                                               *)
(***************************************************************************)
MaxLen == 4

Alphabet == {"a", "e", "1", "-", " ", "\n"}

BoundedStrings == UNION {[1..n -> Alphabet] : n \in 0..MaxLen}

exTrue == <<"T", "r", "u", "e">>

exFalse == <<"F", "a", "l", "s", "e">>

ChoiceInputs == {<<c>> : c \in {"A", "B", "C", "D", "E", "a", "b", "c", "d", "e"}}

exFormulaTail == <<":", " ", "A", " ", "=", " ", "0", ".", "4", "5">>

EquipmentOnly == {equipmentPattern[k] : k \in 1..Len(equipmentPattern)}

EquipmentWithFormula == {equipmentPattern[k] \o exFormulaTail : k \in 1..Len(equipmentPattern)}

exLatex == <<"\\", "[", "E", " ", "=", " ", "m", "c", "^", "2", "\\", "]">>

exLatexFormula == <<"E", " ", "=", " ", "m", "c", "^", "2">>

exProse == <<"S", "t", "e", "p", " ", "1", ":", " ", "C", "a", "l", "c", "u", "l", "a", "t", "e", " ", "t", "o", "t", "a", "l", " ", "a", "p", "p", "l", "e", "s", ".", " ", "a", " ", "=", " ", "1", "8", "/", "6", "\n", "a", " ", "=", " ", "3">>

exProseClean == <<"a", " ", "=", " ", "1", "8", "/", "6", "\n", "a", " ", "=", " ", "3">>

exVariables == <<"v", " ", "0", " ", "=", " ", "5", "\n", "F", " ", "n", "e", "t", " ", "=", " ", "1", "0">>

exPureProse == <<"T", "h", "e", " ", "t", "o", "t", "a", "l", " ", "n", "u", "m", "b", "e", "r", " ", "o", "f", " ", "a", "p", "p", "l", "e", "s", " ", "i", "s", " ", "c", "a", "l", "c", "u", "l", "a", "t", "e", "d", " ", "b", "y", " ", "a", "d", "d", "i", "n", "g", " ", "t", "h", "e", "m", ".">>

exTrailing == <<"x", " ", "=", " ", "1", "-", "-">>

exNoMath == <<"h", "e", "l", "l", "o", " ", "w", "o", "r", "l", "d">>

exMixed == <<"x", " ", "=", " ", "2", "\n", "b", "i", "g", " ", "d", "o", "g", " ", "r", "u", "n", "s", "\n", "y", " ", "=", " ", "3">>

exMixedKept == << <<"x", " ", "=", " ", "2">>, <<"y", " ", "=", " ", "3">> >>

exWordy == <<"b", "i", "g", " ", "d", "o", "g", " ", "r", "u", "n", "s">>

exFormula == <<"F", " ", "=", " ", "m", "a">>

LineExamples == {exWordy, exFormula, exMixed, exNoMath,
    <<"x", " ", "i", "s", " ", "y">>,
    <<"F", " ", "<", " ", "m">> }

Inputs == BoundedStrings \cup ChoiceInputs \cup EquipmentOnly \cup EquipmentWithFormula
            \cup LineExamples
            \cup {Null, exTrue, exFalse, exLatex, exProse, exVariables, exPureProse, exTrailing}

(***************************************************************************)
(* The sanitizer, stage by stage, on one input; a second pass runs it on  *)
(* its own output.                                                        *)
(***************************************************************************)
handlerIdle == /\ pc = "idle"
               /\ req = [subject |-> Null, prompt |-> Null, image |-> Null]
               /\ reply = [kind |-> "none"]
               /\ res = [status |-> 0, error |-> "", result |-> Null]
               /\ calls = [client |-> <<>>, sanitize |-> <<>>, logged |-> <<>>]

SanitizerInit == /\ raw \in Inputs
                 /\ cleaned = <<>>
                 /\ filteredLines = <<>>
                 /\ sanitized = <<>>
                 /\ stage = "start"
                 /\ pass = 1
                 /\ first = <<>>
                 /\ handlerIdle

handlerVars == << pc, req, reply, res, calls >>

\* line 61: if (!raw) return ""
ShortCircuit == /\ stage = "start"
                /\ (raw = Null \/ raw = <<>>)
                /\ stage' = "done"
                /\ sanitized' = <<>>
                /\ first' = IF pass = 1 THEN <<>> ELSE first
                /\ UNCHANGED << raw, cleaned, filteredLines, pass, handlerVars >>

\* lines 64-91
Clean == /\ stage = "start"
         /\ ~(raw = Null \/ raw = <<>>)
         /\ cleaned' = stageA(raw)
         /\ stage' = "cleaned"
         /\ UNCHANGED << raw, filteredLines, sanitized, pass, first, handlerVars >>

\* lines 100-132
Filter == /\ stage = "cleaned"
          /\ filteredLines' = filterLines(lines(cleaned))
          /\ stage' = "filtered"
          /\ UNCHANGED << raw, cleaned, sanitized, pass, first, handlerVars >>

\* lines 167-170
Normalize == /\ stage = "filtered"
             /\ sanitized' = assemble(filteredLines)
             /\ first' = IF pass = 1 THEN sanitized' ELSE first
             /\ stage' = "done"
             /\ UNCHANGED << raw, cleaned, filteredLines, pass, handlerVars >>

\* the sanitizer applied to its own output
Again == /\ stage = "done"
         /\ pass = 1
         /\ raw' = sanitized
         /\ pass' = 2
         /\ stage' = "start"
         /\ cleaned' = <<>>
         /\ filteredLines' = <<>>
         /\ sanitized' = <<>>
         /\ UNCHANGED << first, handlerVars >>

SanitizerNext == ShortCircuit \/ Clean \/ Filter \/ Normalize \/ Again

SanitizerSpec == SanitizerInit /\ [][SanitizerNext]_vars

(***************************************************************************)
(* The handler of POST /api/solve, lines 173-225, on one request.         *)
(***************************************************************************)
\* a content that is neither a string nor missing: an object, an array
NonString == <<"<object>">>

exUrl == <<"d", "a", "t", "a", ":", "i", "m", "a", "g", "e", "/", "p", "n", "g", ";", "b", "a", "s", "e", "6", "4", ",", "A", "A", "A", "A">>

\* what the model may answer with
ModelTexts == {exTrue, exFalse, exLatex, exProse, exVariables, exPureProse, exTrailing,
               exFormula, <<"C">>, <<"a", " ", "=", " ", "3">>}

\* req.body: each field absent, the empty string or a string
Requests == [subject : {Null, <<"m", "a", "t", "h">>},
             prompt : {Null, <<>>, exProseClean},
             image : {Null, <<>>, exUrl}]

\* what client.chat.completions.create resolves to: a completion with its
\* content, or an object that lacks choices, a first choice, its message or
\* its content, or whose content is not a string, or no object at all
Responses == {[shape |-> "completion", content |-> t] : t \in ModelTexts \cup {<<>>}}
               \cup {[shape |-> sh, content |-> Null] :
                       sh \in {"noChoices", "noFirstChoice", "noMessage", "noContent"}}
               \cup {[shape |-> "completion", content |-> NonString],
                     [shape |-> "noResponse", content |-> Null]}

\* what client.chat.completions.create rejects with
Failures == {"network error", "timeout", "rejected by the provider", "unparsable body"}

sanitizerOff == /\ raw = <<>>
                /\ cleaned = <<>>
                /\ filteredLines = <<>>
                /\ sanitized = <<>>
                /\ stage = "off"
                /\ pass = 0
                /\ first = <<>>

Init == /\ pc = "received"
        /\ req \in Requests
        /\ reply = [kind |-> "none"]
        /\ res = [status |-> 0, error |-> "", result |-> Null]
        /\ calls = [client |-> <<>>, sanitize |-> <<>>, logged |-> <<>>]
        /\ sanitizerOff

sanitizerVars == << raw, cleaned, filteredLines, sanitized, stage, pass, first >>

\* !v of a field of the body
Missing(v) == v = Null \/ v = <<>>

\* lines 181-208: the content parts of the user message
userContent(r) ==
  <<"text">> \o (IF Missing(r.prompt) THEN <<>> ELSE <<"text">>)
             \o (IF Missing(r.image) THEN <<>> ELSE <<"input_image">>)

Validate_noReturn ==
  /\ pc = "received"
  /\ res' = IF Missing(req.prompt) /\ Missing(req.image)
            THEN [status |-> 400, error |-> "Prompt or image is required", result |-> Null]
            ELSE res
  /\ calls' = [calls EXCEPT !.client = Append(@, userContent(req))]
  /\ pc' = "awaiting"
  /\ UNCHANGED << req, reply, sanitizerVars >>

\* lines 175-215: the validation and, past it, the call of the model client
Validate ==
  /\ pc = "received"
  /\ IF Missing(req.prompt) /\ Missing(req.image)
     THEN /\ res' = [status |-> 400, error |-> "Prompt or image is required",
                     result |-> Null]
          /\ pc' = "done"
          /\ calls' = calls
     ELSE /\ calls' = [calls EXCEPT !.client = Append(@, userContent(req))]
          /\ pc' = "awaiting"
          /\ res' = res
  /\ UNCHANGED << req, reply, sanitizerVars >>

\* line 210: the awaited call resolves
ClientResolve ==
  /\ pc = "awaiting"
  /\ \E r \in Responses : reply' = [kind |-> "resolved", response |-> r]
  /\ pc' = "resolved"
  /\ UNCHANGED << req, res, calls, sanitizerVars >>

\* line 210: the awaited call rejects
ClientReject ==
  /\ pc = "awaiting"
  /\ \E e \in Failures : reply' = [kind |-> "rejected", error |-> e]
  /\ pc' = "rejected"
  /\ UNCHANGED << req, res, calls, sanitizerVars >>

\* line 217: response.choices?.[0]?.message?.content || ""
contentOf(response) ==
  IF response.shape = "completion" /\ ~Missing(response.content)
  THEN response.content
  ELSE <<>>

\* lines 217-220: sanitize and answer; response.choices throws when there is
\* no response object, and a content that is not a string makes raw.replace
\* throw inside sanitizeOutput
Respond ==
  /\ pc = "resolved"
  /\ LET text == contentOf(reply.response)
     IN /\ calls' = IF reply.response.shape = "noResponse" THEN calls
                    ELSE [calls EXCEPT !.sanitize = Append(@, text)]
        /\ IF reply.response.shape = "noResponse" \/ text = NonString
           THEN /\ reply' = [kind |-> "rejected", error |-> "TypeError"]
                /\ pc' = "rejected"
                /\ res' = res
           ELSE /\ res' = [status |-> 200, error |-> "", result |-> sanitizeOutput(text)]
                /\ pc' = "done"
                /\ reply' = reply
  /\ UNCHANGED << req, sanitizerVars >>

Catch_leaky ==
  /\ pc = "rejected"
  /\ calls' = [calls EXCEPT !.logged = Append(@, reply.error)]
  /\ res' = [status |-> 500, error |-> reply.error, result |-> Null]
  /\ pc' = "done"
  /\ UNCHANGED << req, reply, sanitizerVars >>

\* lines 221-224: console.error(err) and the fixed answer
Catch ==
  /\ pc = "rejected"
  /\ calls' = [calls EXCEPT !.logged = Append(@, reply.error)]
  /\ res' = [status |-> 500, error |-> "Internal server error", result |-> Null]
  /\ pc' = "done"
  /\ UNCHANGED << req, reply, sanitizerVars >>

Next == Validate \/ ClientResolve \/ ClientReject \/ Respond \/ Catch

Spec == Init /\ [][Next]_vars

\* The event loop runs every step of the handler that is ready.  The model
\* client is outside the program: nothing in lines 14-16 or 210-215 bounds
\* the time it takes, so its two steps carry no fairness.
FairSpec == Spec /\ WF_vars(Validate) /\ WF_vars(Respond) /\ WF_vars(Catch)

(***************************************************************************)
(* The claims.                                                            *)
(***************************************************************************)
\* the first pass of the sanitizer has returned
Returned == stage = "done" /\ pass = 1

\* the string s holds the string w
Contains(s, w) == FindLit(s, 1, w) > 0

\* the math-symbol allow-list as the glossary of the specification gives it:
\* digits, operators, Greek letters, the designated variable letters, comparators
AllowList == Digit \cup {"+", "-", "*", "/", "=", "(", ")", "^", "<sqrt>", "<pi>", "<sum>", "<int>"}
               \cup GreekClass
               \cup {"x", "y", "z", "a", "b", "c", "X", "Y", "Z", "A", "B", "C"}
               \cup {"<le>", "<ge>", "<ne>", "<approx>", "<pm>", "<times>", "<div>", "<deg>"}

HasAllowListChar(s) == \E k \in 1..Len(s) : s[k] \in AllowList

\* C1: a single letter A-E of either case, "True" and "False" each come back
\* from sanitizeOutput unchanged.
C1_Passthrough ==
  (Returned /\ raw \in ChoiceInputs \cup {exTrue, exFalse}) => sanitized = raw

\* C2: a line that only names equipment is dropped by sanitizeOutput, and the
\* same name followed by arithmetic (": A = 0.45") is retained.
C2_EquipmentGating ==
  Returned => /\ raw \in EquipmentOnly => sanitized = <<>>
              /\ raw \in EquipmentWithFormula => sanitized = raw

\* C3: for a formula between \[ and \], sanitizeOutput returns text that holds
\* the formula and holds neither \[ nor \].
C3_LatexStripped ==
  (Returned /\ raw = exLatex) =>
     /\ Contains(sanitized, exLatexFormula)
     /\ ~Contains(sanitized, <<"\\", "[">>)
     /\ ~Contains(sanitized, <<"\\", "]">>)

\* C4: sanitizeOutput applied to its own output returns that output.
C4_Idempotent == (stage = "done" /\ pass = 2) => sanitized = first

\* C5: "Step 1: Calculate total apples. a = 18/6" followed by the line "a = 3"
\* sanitizes to exactly the two lines "a = 18/6" and "a = 3".
C5_ProseRemoved == (Returned /\ raw = exProse) => sanitized = exProseClean

\* C6: a request with neither prompt nor image is answered with status 400,
\* and neither the model client nor sanitizeOutput is called for it.
C6_ValidationFirst ==
  (Missing(req.prompt) /\ Missing(req.image) /\ pc # "idle") =>
     /\ calls.client = <<>>
     /\ calls.sanitize = <<>>
     /\ pc \in {"received", "done"}
     /\ pc = "done" => res = [status |-> 400, error |-> "Prompt or image is required",
                              result |-> Null]

\* a rejected request has been answered
C6_Witness ==
  /\ pc = "done"
  /\ req.prompt = <<>>
  /\ req.image = Null
  /\ res.status = 400

\* the opaque internal error of lines 223
InternalError == [status |-> 500, error |-> "Internal server error", result |-> Null]

\* the response of the model lacks choices, a first choice, its message or its content
Malformed == reply.kind = "resolved" /\ reply.response.shape # "completion"

\* C7 as stated: every upstream failure of a validated request (a network
\* error, a provider rejection, a malformed response) is answered with the
\* opaque internal error, and no sanitized result is returned.
C7_EveryFailureOpaque ==
  (pc = "done" /\ (reply.kind = "rejected" \/ Malformed)) => res = InternalError

\* C7 as amended: a model-client call that rejects, or an exception while its
\* response is processed, is answered with the opaque internal error and
\* without a result; a response that lacks choices, a first choice, its
\* message or its content is read as the empty text and answered with
\* status 200 and the empty result.
C7_RejectionsOpaque ==
  pc = "done" =>
     /\ reply.kind = "rejected" =>
          /\ res = InternalError
          /\ calls.logged = <<reply.error>>
     /\ Malformed => res = [status |-> 200, error |-> "", result |-> <<>>]

\* a provider rejection has been answered
C7_Witness ==
  /\ pc = "done"
  /\ reply.kind = "rejected"
  /\ reply.error = "rejected by the provider"
  /\ res.status = 500

\* C8: every request that passed validation is eventually answered, even when
\* the model client never completes.
C8_EventuallyAnswered == (pc = "awaiting") ~> (pc = "done")

AnyOfSix(line) ==
  \/ isTrueFalse(line)
  \/ isChoice(line)
  \/ HasAllowListChar(line)
  \/ testGlobal(equipmentPattern, line, 0) > 0 /\ hasArithmetic(line)
  \/ testGlobal(methodPattern, line, 0) > 0 /\ hasArithmetic(line)
  \/ isFormula(line)

\* the two checks of lines 106-114 that reject a line as descriptive text
RejectedAsText(line) ==
  \/ textWords(line) > 2 * mathSymbols(line) /\ mathSymbols(line) < 3
  \/ hasDescriptiveWord(line) /\ ~hasCoreMath(line)

KeptByRule(line) == line # <<>> /\ ~RejectedAsText(line) /\ AnyOfSix(line)

====
